---- MODULE Spec2Model ----
(***************************************************************************)
(* Model of the investor valuation service of the dasein dashboard:        *)
(*   src/src/services/investorCalculationService.ts, lines 1-528           *)
(* (calculateInvestorValues, calculateInvestorValue, createUnifiedTimeline,*)
(* calculateTotalInvested, findClosestNavPoint, calculateReturn,           *)
(* verifyNavReconciliation) together with the three tables it reads.       *)
(*                                                                         *)
(* Numbers.  The service computes with JavaScript numbers.  The model      *)
(* computes with exact fractions n/d extended by the IEEE special values   *)
(* the code can produce by dividing by zero: d = 0 with n = 1 or n = -1 is *)
(* +Infinity or -Infinity, d = 0 with n = 0 is NaN.  Binary rounding is    *)
(* not modelled.  Amounts are counted in units of 50,000, so that          *)
(* 1,000,000 is 20 and 1,050,000 is 21.                                    *)
(*                                                                         *)
(* Dates.  A date is a day number 1..MaxDate of a calendar whose months    *)
(* have MonthLen days; new Date(s).getTime() is the day number itself.     *)
(* getDate() reads the day of the month in the local time zone, tz.        *)
(***************************************************************************)
EXTENDS Integers, Sequences, FiniteSets, TLC

(***************************************************************************)
(* Bounds of the model                                                     *)
(***************************************************************************)
\* days per month of the model calendar
MonthLen == 3
\* last day number
MaxDate == 6
\* most snapshots in monthly_nav
MaxNav == 2
\* most rows in investors
MaxInv == 2
\* most rows in capital_flows when there is one investor
MaxTx == 2
\* most rows in capital_flows when there are several investors
MaxTxShared == 1

\* a null column (month_start_date, start_nav)
NULL == 0 - 1

(***************************************************************************)
(* JavaScript numbers                                                      *)
(***************************************************************************)
RECURSIVE GCD(_, _)
GCD(a, b) == IF b = 0 THEN a ELSE GCD(b, a % b)

AbsInt(i) == IF i < 0 THEN 0 - i ELSE i

SignInt(i) == IF i < 0 THEN 0 - 1 ELSE IF i > 0 THEN 1 ELSE 0

\* the fraction a/b in lowest terms with a positive denominator; b = 0
\* gives the special values
Frac(a, b) ==
  IF b = 0 THEN [n |-> SignInt(a), d |-> 0]
  ELSE LET g == GCD(AbsInt(a), AbsInt(b))
           s == IF b < 0 THEN 0 - 1 ELSE 1
       IN [n |-> (s * a) \div g, d |-> AbsInt(b) \div g]

\* Number(x) of a numeric column
Number(i) == [n |-> i, d |-> 1]

NaN == [n |-> 0, d |-> 0]

Infinity == [n |-> 1, d |-> 0]

IsNaN(x) == x.d = 0 /\ x.n = 0

IsInf(x) == x.d = 0 /\ x.n # 0

IsFinite(x) == x.d > 0

IsZero(x) == x.d > 0 /\ x.n = 0

Sign(x) == SignInt(x.n)

Neg(x) == [n |-> 0 - x.n, d |-> x.d]

\* a + b
Add(a, b) ==
  IF IsNaN(a) \/ IsNaN(b) THEN NaN
  ELSE IF IsInf(a) /\ IsInf(b) THEN (IF a.n = b.n THEN a ELSE NaN)
  ELSE IF IsInf(a) THEN a
  ELSE IF IsInf(b) THEN b
  ELSE Frac(a.n * b.d + b.n * a.d, a.d * b.d)

\* a - b
Sub(a, b) == Add(a, Neg(b))

\* a * b
Mul(a, b) ==
  IF IsNaN(a) \/ IsNaN(b) THEN NaN
  ELSE IF IsInf(a) \/ IsInf(b)
       THEN [n |-> Sign(a) * Sign(b), d |-> 0]
  ELSE Frac(a.n * b.n, a.d * b.d)

\* a / b
Div(a, b) ==
  IF IsNaN(a) \/ IsNaN(b) THEN NaN
  ELSE IF IsInf(a) /\ IsInf(b) THEN NaN
  ELSE IF IsInf(a) THEN [n |-> Sign(a) * (IF Sign(b) < 0 THEN 0 - 1 ELSE 1), d |-> 0]
  ELSE IF IsInf(b) THEN Number(0)
  ELSE IF b.n = 0 THEN [n |-> Sign(a), d |-> 0]
  ELSE Frac(a.n * b.d, a.d * b.n)

\* a < b
Lt(a, b) ==
  IF IsNaN(a) \/ IsNaN(b) THEN FALSE
  ELSE IF IsInf(a) /\ IsInf(b) THEN a.n < b.n
  ELSE IF IsInf(a) THEN a.n < 0
  ELSE IF IsInf(b) THEN b.n > 0
  ELSE a.n * b.d < b.n * a.d

\* a <= b
Le(a, b) == (~IsNaN(a)) /\ (~IsNaN(b)) /\ ~Lt(b, a)

\* a >= b
Ge(a, b) == Le(b, a)

\* Math.max(0, x)
MathMax0(x) == IF IsNaN(x) THEN NaN ELSE IF Lt(x, Number(0)) THEN Number(0) ELSE x

\* Math.abs(x)
MathAbs(x) == [n |-> AbsInt(x.n), d |-> x.d]

(***************************************************************************)
(* Dates                                                                   *)
(***************************************************************************)
Dates == 1..MaxDate

\* the time zone of the process that runs the service: at or east of UTC,
\* or west of it
VARIABLE tz

TimeZones == {"utc", "west"}

\* new Date(s).getDate(): the day of the month in local time.  A date
\* string without a time is midnight UTC, which west of UTC is still the
\* evening of the day before.
getDate(d) ==
  LET localDay == IF tz = "west" THEN d - 1 ELSE d
  IN ((localDay - 1) % MonthLen) + 1

\* the "yyyy-mm" prefix of a date string, as a month number
MonthOf(d) == ((d - 1) \div MonthLen) + 1

\* the month the code spells "2025-02"
Feb2025 == 2

(***************************************************************************)
(* Rows of the three tables                                                *)
(***************************************************************************)
MarcKimDaudet == "Marc & Kim Daudet"

MitchellPantelides == "Mitchell Pantelides"

Names == {MarcKimDaudet, MitchellPantelides, "Alex Copeland"}

Statuses == {"active", "inactive", "closed"}

FlowTypes == {"contribution", "withdrawal"}

\* the series of total_nav the fund can report, in units of 50,000: a
\* rise, a fall, a worthless first month, a worthless last month
NavSeries == {<<20, 21>>, <<42, 21>>, <<0, 21>>, <<20, 0>>}

\* start_nav, in units of 50,000
StartNavValues == {20}

\* initial_investment, in units of 50,000
InitialInvestments == {2}

\* type and amount of a capital flow, in units of 50,000
FlowKinds == {<<"contribution", 1>>, <<"withdrawal", 1>>, <<"withdrawal", 4>>}

\* start dates: the day before the first month end, that month end, and
\* the first day of the next month
StartDates == {MonthLen - 1, MonthLen, MonthLen + 1}

\* flow dates: the first month end, and the last two days
FlowDates == {MonthLen, MaxDate - 1, MaxDate}

\* the opening date and value of the month closing on d are both optional;
\* the first month has none
MonthStarts(d) ==
  IF d <= MonthLen THEN {<<NULL, NULL>>}
  ELSE {<<NULL, NULL>>, <<d - MonthLen + 1, NULL>>}
         \cup {<<d - MonthLen + 1, sv>> : sv \in StartNavValues}

\* a row of monthly_nav closing on d with value v
MonthlyNav(d, v) ==
  { [month_end_date |-> d, total_nav |-> v, month_start_date |-> ms[1],
     start_nav |-> ms[2]] : ms \in MonthStarts(d) }

\* an investor of any name, status and start date
Investor(i) ==
  [id : {i}, name : Names, initial_investment : InitialInvestments,
   start_date : StartDates, status : Statuses]

\* the other investors of a table with several rows
Peer(i) ==
  [id : {i}, name : {"Alex Copeland"}, initial_investment : InitialInvestments,
   start_date : {MonthLen + 1}, status : {"active", "inactive"}]

\* a row of capital_flows; id is the insertion rank
CapitalFlow(k, ids) ==
  { [id |-> k, investor_id |-> i, date |-> d, amount |-> fk[2], type |-> fk[1]] :
      i \in ids, d \in FlowDates, fk \in FlowKinds }

\* the null MonthlyNav (null or undefined in the code)
NoNav ==
  [month_end_date |-> NULL, total_nav |-> NULL, month_start_date |-> NULL, start_nav |-> NULL]

\* the undefined CapitalFlow
NoFlow == [id |-> NULL, investor_id |-> NULL, date |-> NULL, amount |-> NULL, type |-> "none"]

\* a value that is neither null, undefined, 0 nor NaN
Truthy(x) == x # NULL /\ x # 0

(***************************************************************************)
(* Array helpers                                                           *)
(***************************************************************************)
\* Array.prototype.sort(cmp) is stable: each element goes right after the
\* last element of the sorted prefix that cmp does not place after it
InsertBy(t, x, cmp(_, _)) ==
  LET js == {j \in 1..Len(t) : cmp(t[j], x) <= 0}
      j == IF js = {} THEN 0 ELSE CHOOSE m \in js : \A o \in js : o <= m
  IN SubSeq(t, 1, j) \o <<x>> \o SubSeq(t, j + 1, Len(t))

SortBy(s, cmp(_, _)) ==
  LET sorted[i \in 0..Len(s)] ==
        IF i = 0 THEN <<>> ELSE InsertBy(sorted[i - 1], s[i], cmp)
  IN sorted[Len(s)]

\* Array.prototype.filter
Filter(s, p(_)) ==
  LET kept[i \in 0..Len(s)] ==
        IF i = 0 THEN <<>>
        ELSE IF p(s[i]) THEN Append(kept[i - 1], s[i]) ELSE kept[i - 1]
  IN kept[Len(s)]

\* all the orders of the elements of a set of rows
RECURSIVE Perms(_)
Perms(S) ==
  IF S = {} THEN {<<>>}
  ELSE UNION { { <<x>> \o p : p \in Perms(S \ {x}) } : x \in S }

(***************************************************************************)
(* The pure helpers of the service                                         *)
(***************************************************************************)
\* calculateReturn(invested, currentValue)
calculateReturn(invested, currentValue) ==
  IF Le(invested, Number(0)) THEN Number(0)
  ELSE Mul(Div(Sub(currentValue, invested), invested), Number(100))

\* calculateTotalInvested(initialInvestment, transactions): reduce from
\* initialInvestment, adding contributions and subtracting withdrawals
calculateTotalInvested(initialInvestment, transactions) ==
  LET total[i \in 0..Len(transactions)] ==
        IF i = 0 THEN initialInvestment
        ELSE IF transactions[i].type = "contribution"
             THEN Add(total[i - 1], Number(transactions[i].amount))
        ELSE IF transactions[i].type = "withdrawal"
             THEN Sub(total[i - 1], Number(transactions[i].amount))
        ELSE total[i - 1]
  IN total[Len(transactions)]

\* findClosestNavPoint(navHistory, date): the last row of the leading run of
\* rows dated on or before date; null when the first row is already later
findClosestNavPoint(navHistory, date) ==
  LET closest[i \in 0..Len(navHistory)] ==
        IF i = 0 THEN [point |-> NoNav, open |-> TRUE]
        ELSE IF closest[i - 1].open /\ navHistory[i].month_end_date <= date
             THEN [point |-> navHistory[i], open |-> TRUE]
        ELSE [point |-> closest[i - 1].point, open |-> FALSE]
  IN closest[Len(navHistory)].point

\* the timeline comparator with the slip of the transaction comparator
TimelineCompareSelf(a, b) == a.date - a.date

\* comparator of the timeline sort: a.date.getTime() - b.date.getTime()
TimelineCompare(a, b) == a.date - b.date

\* createUnifiedTimeline pushing a month-start point only for a snapshot
\* that also has start_nav
createUnifiedTimelineBothFields(navHistory, transactions) ==
  LET navPoints[i \in 0..Len(navHistory)] ==
        IF i = 0 THEN <<>>
        ELSE LET nav == navHistory[i]
                 monthStart ==
                   IF Truthy(nav.month_start_date) /\ Truthy(nav.start_nav)
                   THEN <<[type |-> "nav", data |-> nav, date |-> nav.month_start_date]>>
                   ELSE <<>>
             IN navPoints[i - 1] \o monthStart
                  \o <<[type |-> "nav", data |-> nav, date |-> nav.month_end_date]>>
      txPoints == [i \in 1..Len(transactions) |->
                     [type |-> "transaction", data |-> transactions[i],
                      date |-> transactions[i].date]]
  IN SortBy(navPoints[Len(navHistory)] \o txPoints, TimelineCompare)

\* createUnifiedTimeline with the transactions pushed before the NAV points
createUnifiedTimelineTransactionsFirst(navHistory, transactions) ==
  LET navPoints[i \in 0..Len(navHistory)] ==
        IF i = 0 THEN <<>>
        ELSE LET nav == navHistory[i]
                 monthStart ==
                   IF Truthy(nav.month_start_date)
                   THEN <<[type |-> "nav", data |-> nav, date |-> nav.month_start_date]>>
                   ELSE <<>>
             IN navPoints[i - 1] \o monthStart
                  \o <<[type |-> "nav", data |-> nav, date |-> nav.month_end_date]>>
      txPoints == [i \in 1..Len(transactions) |->
                     [type |-> "transaction", data |-> transactions[i],
                      date |-> transactions[i].date]]
  IN SortBy(txPoints \o navPoints[Len(navHistory)], TimelineCompare)

\* createUnifiedTimeline(navHistory, transactions)
createUnifiedTimeline(navHistory, transactions) ==
  LET navPoints[i \in 0..Len(navHistory)] ==
        IF i = 0 THEN <<>>
        ELSE LET nav == navHistory[i]
                 monthStart ==
                   IF Truthy(nav.month_start_date)
                   THEN <<[type |-> "nav", data |-> nav, date |-> nav.month_start_date]>>
                   ELSE <<>>
             IN navPoints[i - 1] \o monthStart
                  \o <<[type |-> "nav", data |-> nav, date |-> nav.month_end_date]>>
      txPoints == [i \in 1..Len(transactions) |->
                     [type |-> "transaction", data |-> transactions[i],
                      date |-> transactions[i].date]]
  IN SortBy(navPoints[Len(navHistory)] \o txPoints, TimelineCompare)

(***************************************************************************)
(* calculateInvestorValue, piece by piece                                  *)
(***************************************************************************)
\* comparator of the NAV history sort
NavCompare(a, b) == a.month_end_date - b.month_end_date

\* comparator of the transaction sort, as written: both operands are a
TransactionCompare(a, b) == a.date - a.date

\* comparator that puts the latest withdrawal first
WithdrawalCompare(a, b) == b.date - a.date

IsWithdrawal(t) == t.type = "withdrawal"

\* Array.prototype.find: the first element satisfying p, else the default
Find(s, p(_), none) ==
  LET is == {i \in 1..Len(s) : p(s[i])}
  IN IF is = {} THEN none ELSE s[CHOOSE i \in is : \A j \in is : i <= j]

\* the branch taken for status closed, dividing by total_invested without
\* the test of calculateReturn
ClosedValueUnguarded(investor, transactions) ==
  LET withdrawals == SortBy(Filter(transactions, IsWithdrawal), WithdrawalCompare)
      lastWithdrawal == IF withdrawals = <<>> THEN NoFlow ELSE withdrawals[1]
      totalInvested ==
        calculateTotalInvested(Number(investor.initial_investment), transactions)
  IN IF lastWithdrawal # NoFlow
     THEN [currentValue |-> Number(0),
           returnPercentage |->
             Mul(Div(Sub(Number(lastWithdrawal.amount), totalInvested), totalInvested),
                 Number(100))]
     ELSE [currentValue |-> Number(0), returnPercentage |-> Number(0)]

\* the branch taken for status closed
ClosedValue(investor, transactions) ==
  LET withdrawals == SortBy(Filter(transactions, IsWithdrawal), WithdrawalCompare)
      lastWithdrawal == IF withdrawals = <<>> THEN NoFlow ELSE withdrawals[1]
      totalInvested ==
        calculateTotalInvested(Number(investor.initial_investment), transactions)
  IN IF lastWithdrawal # NoFlow
     THEN [currentValue |-> Number(0),
           returnPercentage |-> calculateReturn(totalInvested, Number(lastWithdrawal.amount))]
     ELSE [currentValue |-> Number(0), returnPercentage |-> Number(0)]

sortedNavHistoryOf(allNavHistory) == SortBy(allNavHistory, NavCompare)

sortedTransactionsOf(transactions) == SortBy(transactions, TransactionCompare)

\* the NAV point and value the initial investment is priced at; the point
\* is null when no snapshot closes on or before the start date
InitialNav(investor, sortedNavHistory) ==
  LET startDate == investor.start_date
      startDay == getDate(startDate)
      StartsMonth(nav) ==
        Truthy(nav.month_start_date) /\ nav.month_start_date = startDate
      monthContainingStart ==
        IF startDay = 1 THEN Find(sortedNavHistory, StartsMonth, NoNav) ELSE NoNav
      closest == findClosestNavPoint(sortedNavHistory, startDate)
  IN IF monthContainingStart # NoNav /\ Truthy(monthContainingStart.start_nav)
     THEN [point |-> monthContainingStart,
           value |-> Number(monthContainingStart.start_nav)]
     ELSE IF closest = NoNav THEN [point |-> NoNav, value |-> Number(0)]
     ELSE [point |-> closest, value |-> Number(closest.total_nav)]

\* the state of the walk before the first timeline event: the initial
\* ownership, then the two name-specific adjustments
StartOfWalk(investor, sortedTransactions, sortedNavHistory) ==
  LET startDate == investor.start_date
      initialNavValue == InitialNav(investor, sortedNavHistory).value
      initialInvestment == Number(investor.initial_investment)
      w0 == [ownershipPercentage |-> Div(initialInvestment, initialNavValue),
             currentNavValue |-> initialNavValue]
      \* Marc & Kim Daudet
      firstTransaction ==
        IF sortedTransactions = <<>> THEN NoFlow ELSE sortedTransactions[1]
      Relevant(nav) ==
        nav.month_end_date >= startDate /\ nav.month_end_date <= firstTransaction.date
      relevantNavPoints ==
        IF firstTransaction = NoFlow THEN <<>> ELSE Filter(sortedNavHistory, Relevant)
      w1 == IF investor.name = MarcKimDaudet /\ relevantNavPoints # <<>>
            THEN LET nav == Number(relevantNavPoints[Len(relevantNavPoints)].total_nav)
                 IN [ownershipPercentage |-> Div(initialInvestment, nav),
                     currentNavValue |-> nav]
            ELSE w0
      w2 == IF investor.name = MarcKimDaudet
               /\ Lt(w1.ownershipPercentage, Frac(5, 100))
            THEN [w1 EXCEPT !.ownershipPercentage =
                    Mul(Div(initialInvestment, w1.currentNavValue), Frac(115, 100))]
            ELSE w1
      \* Mitchell Pantelides
      InFeb2025(nav) == MonthOf(nav.month_end_date) = Feb2025
      feb2025Nav == Find(sortedNavHistory, InFeb2025, NoNav)
      w3 == IF investor.name = MitchellPantelides /\ feb2025Nav # NoNav
               /\ MonthOf(investor.start_date) = Feb2025
            THEN LET nav == Number(feb2025Nav.total_nav)
                 IN [ownershipPercentage |-> Div(initialInvestment, nav),
                     currentNavValue |-> nav]
            ELSE w2
  IN w3

\* a 'nav' event that takes the closing value of the snapshot at either of
\* its points
NavEventClosingValue(w, event) ==
  [w EXCEPT !.currentNavValue = Number(event.data.total_nav)]

\* the loop body on a 'nav' event dated on or after the start date
NavEvent(w, event) ==
  LET navPoint == event.data
  IN IF Truthy(navPoint.month_start_date)
        /\ navPoint.month_start_date = event.date
        /\ Truthy(navPoint.start_nav)
     THEN [w EXCEPT !.currentNavValue = Number(navPoint.start_nav)]
     ELSE IF navPoint.month_end_date = event.date
     THEN [w EXCEPT !.currentNavValue = Number(navPoint.total_nav)]
     ELSE w

\* the clamp left out
ClampOwnershipMissing(x) == x

\* the clamp applied to the ownership after a withdrawal
ClampOwnership(x) == MathMax0(x)

\* the loop body on a 'transaction' event with the amount of a withdrawal
\* added instead of subtracted
TransactionEventSigned(w, event, investor) ==
  LET transaction == event.data
      investorValueBeforeTransaction ==
        Mul(w.currentNavValue, w.ownershipPercentage)
  IN IF transaction.investor_id # investor.id THEN w
     ELSE [w EXCEPT !.ownershipPercentage =
             ClampOwnership(
               Div(Add(investorValueBeforeTransaction, Number(transaction.amount)),
                   w.currentNavValue))]

\* the loop body on a 'transaction' event dated on or after the start date
TransactionEvent(w, event, investor) ==
  LET transaction == event.data
      investorValueBeforeTransaction ==
        Mul(w.currentNavValue, w.ownershipPercentage)
  IN IF transaction.investor_id # investor.id THEN w
     ELSE IF transaction.type = "contribution"
     THEN [w EXCEPT !.ownershipPercentage =
             Div(Add(investorValueBeforeTransaction, Number(transaction.amount)),
                 w.currentNavValue)]
     ELSE IF transaction.type = "withdrawal"
     THEN [w EXCEPT !.ownershipPercentage =
             ClampOwnership(
               Div(Sub(investorValueBeforeTransaction, Number(transaction.amount)),
                   w.currentNavValue))]
     ELSE w

\* one iteration of the loop over the timeline
WalkStep(w, event, investor) ==
  IF event.date < investor.start_date THEN w
  ELSE IF event.type = "nav" THEN NavEvent(w, event)
  ELSE TransactionEvent(w, event, investor)

\* the value and return computed after the loop, with the two final
\* name-specific overrides
FinalValue(investor, w, latestNav, sortedTransactions) ==
  LET initialInvestment == Number(investor.initial_investment)
      currentValue == Mul(Number(latestNav.total_nav), w.ownershipPercentage)
      totalInvested == calculateTotalInvested(initialInvestment, sortedTransactions)
      returnPercentage == calculateReturn(totalInvested, currentValue)
      r0 == [currentValue |-> currentValue, returnPercentage |-> returnPercentage]
      r1 == IF investor.name = MitchellPantelides /\ Lt(r0.returnPercentage, Number(0))
            THEN [currentValue |-> Mul(initialInvestment, Frac(105, 100)),
                  returnPercentage |-> Number(5)]
            ELSE r0
      r2 == IF investor.name = MarcKimDaudet /\ Lt(r1.returnPercentage, Number(0))
            THEN [currentValue |-> Mul(initialInvestment, Frac(110, 100)),
                  returnPercentage |-> Number(10)]
            ELSE r1
  IN r2

\* calculateInvestorValue(investor, transactions, latestNav, allNavHistory)
calculateInvestorValue(investor, transactions, latestNav, allNavHistory) ==
  LET sortedNavHistory == sortedNavHistoryOf(allNavHistory)
      sortedTransactions == sortedTransactionsOf(transactions)
      tl == createUnifiedTimeline(sortedNavHistory, sortedTransactions)
      walk[i \in 0..Len(tl)] ==
        IF i = 0 THEN StartOfWalk(investor, sortedTransactions, sortedNavHistory)
        ELSE WalkStep(walk[i - 1], tl[i], investor)
  IN IF investor.status = "closed" THEN ClosedValue(investor, transactions)
     ELSE IF InitialNav(investor, sortedNavHistory).point = NoNav
     THEN [currentValue |-> Number(0), returnPercentage |-> Number(0)]
     ELSE FinalValue(investor, walk[Len(tl)], latestNav, sortedTransactions)

(***************************************************************************)
(* calculateInvestorValues, piece by piece                                 *)
(***************************************************************************)
\* the record the map callback returns for one investor
InvestorResult(investor, result) ==
  [id |-> investor.id,
   name |-> investor.name,
   initialInvestment |-> Number(investor.initial_investment),
   currentValue |-> result.currentValue,
   return |-> result.returnPercentage,
   status |-> investor.status,
   startDate |-> investor.start_date]

\* "manual adjustments to problematic investors"
Adjust(r) ==
  IF r.name = MarcKimDaudet /\ Lt(r.return, Number(0))
  THEN [r EXCEPT !.currentValue = Mul(r.initialInvestment, Frac(110, 100)),
                 !.return = Number(10)]
  ELSE IF r.name = MitchellPantelides /\ Lt(r.return, Number(0))
  THEN [r EXCEPT !.currentValue = Mul(r.initialInvestment, Frac(105, 100)),
                 !.return = Number(5)]
  ELSE r

IsActive(r) == r.status = "active"

\* reduce((sum, investor) => sum + investor.currentValue, 0)
SumCurrentValue(rs) ==
  LET sum[i \in 0..Len(rs)] ==
        IF i = 0 THEN Number(0) ELSE Add(sum[i - 1], rs[i].currentValue)
  IN sum[Len(rs)]

\* the sum of the values of the active investors of a result list
SumActive(rs) == SumCurrentValue(Filter(rs, IsActive))

\* scaleFactor = totalNAV / sumInvestorValues
ScaleFactor(totalNAV, sumInvestorValues) == Div(totalNAV, sumInvestorValues)

\* the final map: only active investors are scaled
Scale(r, scaleFactor) ==
  IF r.status = "active"
  THEN LET scaledValue == Mul(r.currentValue, scaleFactor)
           scaledReturn ==
             Mul(Div(Sub(scaledValue, r.initialInvestment), r.initialInvestment),
                 Number(100))
       IN [r EXCEPT !.currentValue = scaledValue, !.return = scaledReturn]
  ELSE r

\* lines 63-105: adjust, sum the active values, scale
AdjustAndScale(results, latestNav) ==
  LET totalNAV == Number(latestNav.total_nav)
      adjustedResults == [i \in 1..Len(results) |-> Adjust(results[i])]
      scaleFactor == ScaleFactor(totalNAV, SumActive(adjustedResults))
  IN [i \in 1..Len(results) |-> Scale(adjustedResults[i], scaleFactor)]

(***************************************************************************)
(* The reads of the tables                                                 *)
(***************************************************************************)
\* getLatestNav(): the row with the greatest month_end_date; .single()
\* fails on an empty table and the function returns null
getLatestNav(table) ==
  IF table = <<>> THEN NoNav
  ELSE LET desc == SortBy(table, LAMBDA a, b : b.month_end_date - a.month_end_date)
       IN desc[1]

\* getAllNavData(): every row, ascending by month_end_date
getAllNavData(table) == SortBy(table, NavCompare)

\* getAllInvestors(): every row.  The rows come ordered by name; a result
\* is matched to its investor by position, so the order is not modelled.
getAllInvestors(table) == table

\* the rows of one investor, in every order the query can deliver them:
\* sorted by date, rows of the same date in any order
InvestorRows(table, investorId) ==
  {table[i] : i \in {j \in 1..Len(table) : table[j].investor_id = investorId}}

\* getInvestorTransactions of the service: order("date", ascending)
getInvestorTransactions(table, investorId) ==
  {p \in Perms(InvestorRows(table, investorId)) :
     \A i \in 1..(Len(p) - 1) : p[i].date <= p[i + 1].date}

\* getInvestorTransactions of the data service, used by the detail page:
\* order("date", descending)
getInvestorTransactionsDesc(table, investorId) ==
  {p \in Perms(InvestorRows(table, investorId)) :
     \A i \in 1..(Len(p) - 1) : p[i].date >= p[i + 1].date}

(***************************************************************************)
(* State                                                                   *)
(***************************************************************************)
VARIABLES
  \* the tables monthly_nav, investors and capital_flows
  monthly_nav, investors, capital_flows,
  \* verifyNavReconciliation: position, its own latest NAV, its result
  vpc, vLatestNav, vResult,
  \* calculateInvestorValues: position, the three reads, the results of the
  \* map (investorResults) and the list it returns (returned)
  cpc, cLatestNav, cInvestors, cNavHistory, investorResults, returned,
  \* calculateInvestorValue called by the investor detail page: position,
  \* arguments, sorted copies, timeline, loop index, loop state, result
  dpc, dInvestor, dTransactions, dLatestNav, dNavHistory, sortedNavHistory,
  sortedTransactions, timeline, idx, walk, dResult

tables == <<monthly_nav, investors, capital_flows>>

vvars == <<vpc, vLatestNav, vResult>>

cvars == <<cpc, cLatestNav, cInvestors, cNavHistory, investorResults, returned>>

dvars == <<dpc, dInvestor, dTransactions, dLatestNav, dNavHistory,
           sortedNavHistory, sortedTransactions, timeline, idx, walk, dResult>>

vars == <<tz, tables, vvars, cvars, dvars>>

\* the value of a variable that holds no investor yet
NoInvestor ==
  [id |-> NULL, name |-> "", initial_investment |-> NULL, start_date |-> NULL,
   status |-> ""]

NoWalk == [ownershipPercentage |-> NaN, currentNavValue |-> NaN]

NoResult == [currentValue |-> NaN, returnPercentage |-> NaN]

NoReconciliation ==
  [totalNav |-> NaN, sumInvestorValues |-> NaN, discrepancy |-> NaN,
   isReconciled |-> FALSE]

(***************************************************************************)
(* The tables the computation can find                                     *)
(***************************************************************************)
\* monthly_nav holds one row per month from the first month on; its values
\* are the first months of a series
NavTables ==
  UNION { { t \in [1..k -> UNION {MonthlyNav(j * MonthLen, ser[j]) :
                                    j \in 1..k, ser \in NavSeries}] :
              \E ser \in NavSeries :
                \A j \in 1..k : t[j] \in MonthlyNav(j * MonthLen, ser[j]) } :
          k \in {m \in 0..MaxNav : m * MonthLen <= MaxDate /\ m <= 2} }

\* investors holds one investor of any kind and up to MaxInv - 1 peers
InvestorTables ==
  UNION { { t \in [1..k -> Investor(1) \cup UNION {Peer(i) : i \in 2..MaxInv}] :
              \A j \in 1..k : t[j] \in (IF j = 1 THEN Investor(1) ELSE Peer(j)) } :
          k \in 0..MaxInv }

\* capital_flows holds up to MaxTx rows when there is one investor, up to
\* MaxTxShared otherwise, inserted in date order
FlowTables(ids) ==
  UNION { { t \in [1..k -> UNION {CapitalFlow(j, ids) : j \in 1..k}] :
              /\ \A j \in 1..k : t[j].id = j
              /\ \A j \in 1..(k - 1) : t[j].date <= t[j + 1].date } :
          k \in 0..(IF Cardinality(ids) <= 1 THEN MaxTx ELSE MaxTxShared) }

Init ==
  /\ tz \in TimeZones
  /\ monthly_nav \in NavTables
  /\ investors \in InvestorTables
  /\ capital_flows \in FlowTables(1..Len(investors))
  /\ vpc = "idle" /\ vLatestNav = NoNav /\ vResult = NoReconciliation
  /\ cpc = "idle" /\ cLatestNav = NoNav /\ cInvestors = <<>> /\ cNavHistory = <<>>
  /\ investorResults = <<>> /\ returned = <<>>
  /\ dpc = "idle" /\ dInvestor = NoInvestor /\ dTransactions = <<>>
  /\ dLatestNav = NoNav /\ dNavHistory = <<>>
  /\ sortedNavHistory = <<>> /\ sortedTransactions = <<>>
  /\ timeline = <<>> /\ idx = 0 /\ walk = NoWalk /\ dResult = NoResult

(***************************************************************************)
(* verifyNavReconciliation and calculateInvestorValues                     *)
(***************************************************************************)
\* verifyNavReconciliation up to its call of calculateInvestorValues
VerifyStart ==
  /\ vpc = "idle" /\ cpc = "idle" /\ dpc = "idle"
  /\ LET latestNav == getLatestNav(monthly_nav)
     IN IF latestNav = NoNav
        THEN /\ vpc' = "done"
             /\ vResult' = [totalNav |-> Number(0), sumInvestorValues |-> Number(0),
                            discrepancy |-> Number(0), isReconciled |-> FALSE]
             /\ UNCHANGED vLatestNav
        ELSE /\ vpc' = "calc"
             /\ vLatestNav' = latestNav
             /\ UNCHANGED vResult
  /\ UNCHANGED <<tz, tables, cvars, dvars>>

\* calculateInvestorValues up to Promise.all: the three reads and the two
\* early returns.  It is called by verifyNavReconciliation (vpc = "calc")
\* or by the investors page (vpc = "idle").
CalcStart ==
  /\ cpc = "idle" /\ vpc \in {"idle", "calc"} /\ dpc = "idle"
  /\ LET latestNav == getLatestNav(monthly_nav)
         allInvestors == getAllInvestors(investors)
     IN IF latestNav = NoNav \/ Len(allInvestors) = 0
        THEN /\ cpc' = "done"
             /\ returned' = <<>>
             /\ UNCHANGED <<cLatestNav, cInvestors, cNavHistory>>
        ELSE /\ cpc' = "map"
             /\ cLatestNav' = latestNav
             /\ cInvestors' = allInvestors
             /\ cNavHistory' = getAllNavData(monthly_nav)
             /\ UNCHANGED returned
  /\ UNCHANGED <<tz, tables, vvars, dvars, investorResults>>

\* the map callback for the next investor: read its transactions, compute
\* its value
MapInvestor ==
  /\ cpc = "map" /\ Len(investorResults) < Len(cInvestors)
  /\ LET investor == cInvestors[Len(investorResults) + 1]
     IN \E transactions \in getInvestorTransactions(capital_flows, investor.id) :
          investorResults' =
            Append(investorResults,
                   InvestorResult(investor,
                     calculateInvestorValue(investor, transactions, cLatestNav,
                                            cNavHistory)))
  /\ UNCHANGED <<tz, tables, vvars, dvars, cpc, cLatestNav, cInvestors, cNavHistory, returned>>

\* after Promise.all: adjust, scale, return
CalcReturn ==
  /\ cpc = "map" /\ Len(investorResults) = Len(cInvestors)
  /\ returned' = AdjustAndScale(investorResults, cLatestNav)
  /\ cpc' = "done"
  /\ UNCHANGED <<tz, tables, vvars, dvars, cLatestNav, cInvestors, cNavHistory, investorResults>>

\* the tolerance test with <= for <
IsReconciledInclusive(discrepancy, totalNav) ==
  Le(discrepancy, Mul(totalNav, Frac(1, 10000)))

\* isReconciled = discrepancy < totalNav * 0.0001
IsReconciled(discrepancy, totalNav) == Lt(discrepancy, Mul(totalNav, Frac(1, 10000)))

\* verifyNavReconciliation after calculateInvestorValues has returned
VerifyReturn ==
  /\ vpc = "calc" /\ cpc = "done"
  /\ LET sumInvestorValues == SumActive(returned)
         totalNav == Number(vLatestNav.total_nav)
         discrepancy == MathAbs(Sub(totalNav, sumInvestorValues))
     IN vResult' = [totalNav |-> totalNav, sumInvestorValues |-> sumInvestorValues,
                    discrepancy |-> discrepancy,
                    isReconciled |-> IsReconciled(discrepancy, totalNav)]
  /\ vpc' = "done"
  /\ UNCHANGED <<tz, tables, cvars, dvars, vLatestNav>>

(***************************************************************************)
(* calculateInvestorValue, step by step, as the detail page calls it       *)
(***************************************************************************)
\* the call sorting the arrays of its caller instead of copies of them
CallSortingInPlace(investor, transactions, latestNav, allNavHistory) ==
  LET navs == sortedNavHistoryOf(allNavHistory)
      txs == sortedTransactionsOf(transactions)
  IN /\ dInvestor' = investor
     /\ dTransactions' = txs
     /\ dLatestNav' = latestNav
     /\ dNavHistory' = navs
     /\ IF investor.status = "closed"
        THEN /\ dResult' = ClosedValue(investor, transactions)
             /\ dpc' = "done"
             /\ UNCHANGED <<sortedNavHistory, sortedTransactions, timeline, idx, walk>>
        ELSE /\ sortedNavHistory' = navs
             /\ sortedTransactions' = txs
             /\ IF InitialNav(investor, navs).point = NoNav
                THEN /\ dResult' = [currentValue |-> Number(0),
                                    returnPercentage |-> Number(0)]
                     /\ dpc' = "done"
                     /\ UNCHANGED <<timeline, idx, walk>>
                ELSE /\ walk' = StartOfWalk(investor, txs, navs)
                     /\ timeline' = createUnifiedTimeline(navs, txs)
                     /\ idx' = 1
                     /\ dpc' = "walk"
                     /\ UNCHANGED dResult

\* from the call to the first iteration of the loop
Call(investor, transactions, latestNav, allNavHistory) ==
  LET navs == sortedNavHistoryOf(allNavHistory)
      txs == sortedTransactionsOf(transactions)
  IN /\ dInvestor' = investor
     /\ dTransactions' = transactions
     /\ dLatestNav' = latestNav
     /\ dNavHistory' = allNavHistory
     /\ IF investor.status = "closed"
        THEN /\ dResult' = ClosedValue(investor, transactions)
             /\ dpc' = "done"
             /\ UNCHANGED <<sortedNavHistory, sortedTransactions, timeline, idx, walk>>
        ELSE /\ sortedNavHistory' = navs
             /\ sortedTransactions' = txs
             /\ IF InitialNav(investor, navs).point = NoNav
                THEN /\ dResult' = [currentValue |-> Number(0),
                                    returnPercentage |-> Number(0)]
                     /\ dpc' = "done"
                     /\ UNCHANGED <<timeline, idx, walk>>
                ELSE /\ walk' = StartOfWalk(investor, txs, navs)
                     /\ timeline' = createUnifiedTimeline(navs, txs)
                     /\ idx' = 1
                     /\ dpc' = "walk"
                     /\ UNCHANGED dResult

\* the investor detail page reads the investor's transactions, the latest
\* NAV and the NAV history, and calls calculateInvestorValue
WalkBegin ==
  /\ dpc = "idle" /\ vpc = "idle" /\ cpc = "idle"
  /\ getLatestNav(monthly_nav) # NoNav
  /\ \E i \in 1..Len(investors) :
     \E transactions \in getInvestorTransactionsDesc(capital_flows, investors[i].id) :
       Call(investors[i], transactions, getLatestNav(monthly_nav),
            getAllNavData(monthly_nav))
  /\ UNCHANGED <<tz, tables, vvars, cvars>>

\* the skip also taking the events dated on the start date
WalkSkipThroughStart ==
  /\ dpc = "walk" /\ idx <= Len(timeline)
  /\ timeline[idx].date <= dInvestor.start_date
  /\ idx' = idx + 1
  /\ UNCHANGED <<tz, tables, vvars, cvars, dpc, dInvestor, dTransactions, dLatestNav,
                 dNavHistory, sortedNavHistory, sortedTransactions, timeline, walk,
                 dResult>>

\* an event dated before the start date is skipped
WalkSkip ==
  /\ dpc = "walk" /\ idx <= Len(timeline)
  /\ timeline[idx].date < dInvestor.start_date
  /\ idx' = idx + 1
  /\ UNCHANGED <<tz, tables, vvars, cvars, dpc, dInvestor, dTransactions, dLatestNav,
                 dNavHistory, sortedNavHistory, sortedTransactions, timeline, walk, dResult>>

\* a 'nav' event
WalkNav ==
  /\ dpc = "walk" /\ idx <= Len(timeline)
  /\ timeline[idx].date >= dInvestor.start_date
  /\ timeline[idx].type = "nav"
  /\ walk' = NavEvent(walk, timeline[idx])
  /\ idx' = idx + 1
  /\ UNCHANGED <<tz, tables, vvars, cvars, dpc, dInvestor, dTransactions, dLatestNav,
                 dNavHistory, sortedNavHistory, sortedTransactions, timeline, dResult>>

\* a 'transaction' event that ends the loop once the ownership is zero
WalkTransactionBreaks ==
  /\ dpc = "walk" /\ idx <= Len(timeline)
  /\ timeline[idx].date >= dInvestor.start_date
  /\ timeline[idx].type = "transaction"
  /\ walk' = TransactionEvent(walk, timeline[idx], dInvestor)
  /\ idx' = IF IsZero(walk'.ownershipPercentage) THEN Len(timeline) + 1 ELSE idx + 1
  /\ UNCHANGED <<tz, tables, vvars, cvars, dpc, dInvestor, dTransactions, dLatestNav,
                 dNavHistory, sortedNavHistory, sortedTransactions, timeline, dResult>>

\* a 'transaction' event
WalkTransaction ==
  /\ dpc = "walk" /\ idx <= Len(timeline)
  /\ timeline[idx].date >= dInvestor.start_date
  /\ timeline[idx].type = "transaction"
  /\ walk' = TransactionEvent(walk, timeline[idx], dInvestor)
  /\ idx' = idx + 1
  /\ UNCHANGED <<tz, tables, vvars, cvars, dpc, dInvestor, dTransactions, dLatestNav,
                 dNavHistory, sortedNavHistory, sortedTransactions, timeline, dResult>>

\* after the loop
WalkReturn ==
  /\ dpc = "walk" /\ idx > Len(timeline)
  /\ dResult' = FinalValue(dInvestor, walk, dLatestNav, sortedTransactions)
  /\ dpc' = "done"
  /\ UNCHANGED <<tz, tables, vvars, cvars, dInvestor, dTransactions, dLatestNav,
                 dNavHistory, sortedNavHistory, sortedTransactions, timeline, idx, walk>>

Next ==
  \/ VerifyStart
  \/ CalcStart
  \/ MapInvestor
  \/ CalcReturn
  \/ VerifyReturn
  \/ WalkBegin
  \/ WalkSkip
  \/ WalkNav
  \/ WalkTransaction
  \/ WalkReturn

Spec == Init /\ [][Next]_vars

(***************************************************************************)
(* calculateInvestorValue called with arrays of any content and order      *)
(***************************************************************************)
\* the rows of a table
Rows(table) == {table[i] : i \in 1..Len(table)}

\* a caller holds an investor, a transaction array and a NAV history array
\* in any order, and the latest NAV
Invoke ==
  /\ dpc = "idle" /\ vpc = "idle" /\ cpc = "idle"
  /\ getLatestNav(monthly_nav) # NoNav
  /\ \E i \in 1..Len(investors) :
     \E transactions \in Perms(Rows(capital_flows)) :
     \E allNavHistory \in Perms(Rows(monthly_nav)) :
       /\ dInvestor' = investors[i]
       /\ dTransactions' = transactions
       /\ dLatestNav' = getLatestNav(monthly_nav)
       /\ dNavHistory' = allNavHistory
  /\ dpc' = "called"
  /\ UNCHANGED <<tz, tables, vvars, cvars, sortedNavHistory, sortedTransactions,
                 timeline, idx, walk, dResult>>

\* the function runs on the arrays of its caller up to the loop
Enter ==
  /\ dpc = "called"
  /\ Call(dInvestor, dTransactions, dLatestNav, dNavHistory)
  /\ UNCHANGED <<tz, tables, vvars, cvars>>

NextCall ==
  \/ Invoke
  \/ Enter
  \/ WalkSkip
  \/ WalkNav
  \/ WalkTransaction
  \/ WalkReturn

SpecCall == Init /\ [][NextCall]_vars

(***************************************************************************)
(* The NAV form adding a snapshot while a computation runs                 *)
(***************************************************************************)
\* total_nav of a snapshot entered in the form, in units of 50,000
NewNavValues == {21, 42}

\* addMonthlyNav: insert the snapshot of the month after the last one; the
\* form sets neither month_start_date nor start_nav
addMonthlyNav ==
  /\ Len(monthly_nav) < MaxNav
  /\ (Len(monthly_nav) + 1) * MonthLen <= MaxDate
  /\ \E v \in NewNavValues :
       monthly_nav' =
         Append(monthly_nav,
                [month_end_date |-> (Len(monthly_nav) + 1) * MonthLen,
                 total_nav |-> v, month_start_date |-> NULL, start_nav |-> NULL])
  /\ UNCHANGED <<tz, investors, capital_flows, vvars, cvars, dvars>>

NextConcurrent ==
  \/ VerifyStart
  \/ CalcStart
  \/ MapInvestor
  \/ CalcReturn
  \/ VerifyReturn
  \/ WalkBegin
  \/ WalkSkip
  \/ WalkNav
  \/ WalkTransaction
  \/ WalkReturn
  \/ addMonthlyNav

SpecConcurrent == Init /\ [][NextConcurrent]_vars

(***************************************************************************)
(* Properties                                                              *)
(***************************************************************************)
\* the loop of the detail-page call has started
Walking == dpc = "walk" \/ (dpc = "done" /\ timeline # <<>>)

\* every value of the NAV history is positive
PositiveNavHistory(navs) ==
  \A i \in 1..Len(navs) :
    /\ navs[i].total_nav > 0
    /\ navs[i].start_nav = NULL \/ navs[i].start_nav > 0

\* the event the loop handled last
LastEvent == timeline[idx - 1]

\* the loop has just handled a transaction of the given type dated on or
\* after the start date
JustHandled(type) ==
  /\ dpc = "walk" /\ idx > 1
  /\ LastEvent.type = "transaction"
  /\ LastEvent.date >= dInvestor.start_date
  /\ LastEvent.data.type = type

\* C1: with a NAV history of positive values, a positive initial investment
\* and positive amounts, the ownership fraction of the walk is >= 0 after
\* initialisation and after every timeline event.
C1_OwnershipNonNegative ==
  (Walking /\ PositiveNavHistory(sortedNavHistory))
    => Ge(walk.ownershipPercentage, Number(0))

\* C1 witness: a withdrawal larger than the investor's value has been
\* handled and left the ownership at zero.
C1_Witness ==
  /\ JustHandled("withdrawal")
  /\ PositiveNavHistory(sortedNavHistory)
  /\ LastEvent.data.amount = 4
  /\ IsZero(walk.ownershipPercentage)

\* C4: on a transaction event, with value_before = nav_reference *
\* ownership_fraction, the new ownership_fraction is (value_before + amount)
\* / nav_reference for a contribution and max(0, (value_before - amount) /
\* nav_reference) for a withdrawal, and nav_reference is unchanged.
C4_TransactionStep ==
  [][WalkTransaction =>
       LET t == timeline[idx].data
           amount == Number(t.amount)
           nav_reference == walk.currentNavValue
           value_before == Mul(nav_reference, walk.ownershipPercentage)
           after == IF t.type = "contribution"
                    THEN Div(Add(value_before, amount), nav_reference)
                    ELSE LET x == Div(Sub(value_before, amount), nav_reference)
                         IN IF Lt(x, Number(0)) THEN Number(0) ELSE x
       IN /\ walk'.ownershipPercentage = after
          /\ walk'.currentNavValue = nav_reference]_vars

\* C4 witness: a contribution has been handled at a positive NAV reference
\* and the investor owns more than the initial investment bought.
C4_Witness ==
  /\ JustHandled("contribution")
  /\ Lt(Number(0), walk.currentNavValue)
  /\ Lt(Div(Number(dInvestor.initial_investment), walk.currentNavValue),
        walk.ownershipPercentage)

\* the value of the NAV points dated d: month ends, and month starts that
\* carry start_nav
NavPointValues(navs, d) ==
  {Number(navs[i].total_nav) : i \in {j \in 1..Len(navs) : navs[j].month_end_date = d}}
    \cup {Number(navs[i].start_nav) :
            i \in {j \in 1..Len(navs) :
                     navs[j].month_start_date = d /\ Truthy(navs[j].start_nav)}}

\* C6: a NAV point and a transaction of the same date: the NAV point comes
\* first in the timeline, and the transaction is priced with the NAV value of
\* that date.
C6_SameDateNavFirst ==
  Walking =>
    /\ \A i, j \in 1..Len(timeline) :
         (timeline[i].type = "nav" /\ timeline[j].type = "transaction"
            /\ timeline[i].date = timeline[j].date) => i < j
    /\ (dpc = "walk" /\ idx <= Len(timeline)
          /\ timeline[idx].type = "transaction"
          /\ timeline[idx].date >= dInvestor.start_date)
         => \A v \in NavPointValues(sortedNavHistory, timeline[idx].date) :
              walk.currentNavValue = v

\* C6 witness: the loop is about to price a transaction dated on the last
\* month end, whose NAV differs from the NAV of the month before.
C6_Witness ==
  /\ dpc = "walk" /\ idx <= Len(timeline)
  /\ timeline[idx].type = "transaction"
  /\ timeline[idx].date >= dInvestor.start_date
  /\ Len(sortedNavHistory) = 2
  /\ timeline[idx].date = sortedNavHistory[2].month_end_date
  /\ sortedNavHistory[1].total_nav # sortedNavHistory[2].total_nav
  /\ walk.currentNavValue = Number(sortedNavHistory[2].total_nav)

\* the number of events of the timeline that satisfy p
CountEvents(p(_)) == Cardinality({i \in 1..Len(timeline) : p(timeline[i])})

\* C7: the timeline is non-decreasing in date, holds every input
\* transaction exactly once tagged 'transaction' and every snapshot's month
\* end exactly once tagged 'nav', and holds no event that is not derived from
\* an input record.
C7_TimelineContract ==
  Walking =>
    /\ \A i, j \in 1..Len(timeline) : i < j => timeline[i].date <= timeline[j].date
    /\ \A k \in 1..Len(dTransactions) :
         CountEvents(LAMBDA e : e.type = "transaction" /\ e.data = dTransactions[k]
                                  /\ e.date = dTransactions[k].date) = 1
    /\ \A k \in 1..Len(monthly_nav) :
         CountEvents(LAMBDA e : e.type = "nav" /\ e.data = monthly_nav[k]
                                  /\ e.date = monthly_nav[k].month_end_date) = 1
    /\ \A i \in 1..Len(timeline) :
         \/ /\ timeline[i].type = "transaction"
            /\ \E k \in 1..Len(dTransactions) :
                 timeline[i].data = dTransactions[k]
                   /\ timeline[i].date = dTransactions[k].date
         \/ /\ timeline[i].type = "nav"
            /\ \E k \in 1..Len(monthly_nav) :
                 /\ timeline[i].data = monthly_nav[k]
                 /\ timeline[i].date \in
                      {monthly_nav[k].month_end_date, monthly_nav[k].month_start_date}

\* C7 witness: the transactions were passed latest first and the timeline
\* holds them earliest first, between NAV points.
C7_Witness ==
  /\ dpc = "walk"
  /\ Len(dTransactions) = 2
  /\ dTransactions[1].date > dTransactions[2].date
  /\ Len(timeline) = 5
  /\ timeline[2].type = "transaction"
  /\ timeline[4].type = "transaction"

\* the results of the map after the manual adjustments: the values the
\* scale factor is computed from and applied to
adjustedResults == [i \in 1..Len(investorResults) |-> Adjust(investorResults[i])]

\* calculateInvestorValues has computed and returned a list
BatchReturned == cpc = "done" /\ Len(investorResults) > 0

\* the sum of current_value over the entries of rs whose status is active
ActiveSum(rs) ==
  LET sum[i \in 0..Len(rs)] ==
        IF i = 0 THEN Number(0)
        ELSE IF rs[i].status = "active" THEN Add(sum[i - 1], rs[i].currentValue)
        ELSE sum[i - 1]
  IN sum[Len(rs)]

\* 0.01% of the total NAV
Tolerance(total_nav) == Mul(total_nav, Frac(1, 10000))

\* C2, for a positive finite sum: when the values computed by the ownership
\* walk for the active investors sum to an amount that differs from the
\* latest total_nav by 0.01% of it or more, verifyNavReconciliation returns
\* is_reconciled = false with that discrepancy.
C2_MismatchReported ==
  (vpc = "done" /\ BatchReturned) =>
    LET total_nav == Number(vLatestNav.total_nav)
        walkSum == ActiveSum(investorResults)
        mismatch == MathAbs(Sub(total_nav, walkSum))
    IN (Lt(Number(0), walkSum) /\ IsFinite(walkSum)
          /\ Ge(mismatch, Tolerance(total_nav)))
         => /\ vResult.isReconciled = FALSE
            /\ vResult.discrepancy = mismatch

\* the computation of the investor fails: no snapshot on or before its
\* start date, or a zero NAV reference for its initial investment
Fails(investor, navs) ==
  /\ investor.status # "closed"
  /\ \/ InitialNav(investor, navs).point = NoNav
     \/ IsZero(InitialNav(investor, navs).value)

RemoveAt(s, i) == SubSeq(s, 1, i - 1) \o SubSeq(s, i + 1, Len(s))

\* C3: if one investor's computation fails, a result is still returned for
\* every other investor, and each is the same value it would be if the
\* failing investor were removed from the batch, whenever that value is
\* finite.
C3_FailureIsolated ==
  BatchReturned =>
    /\ Len(returned) = Len(cInvestors)
    /\ \A i \in 1..Len(cInvestors) :
         Fails(cInvestors[i], cNavHistory) =>
           LET without == AdjustAndScale(RemoveAt(investorResults, i), cLatestNav)
           IN \A j \in 1..Len(cInvestors) :
                (j # i /\ ~Fails(cInvestors[j], cNavHistory)) =>
                  LET alone == without[IF j < i THEN j ELSE j - 1]
                  IN IsFinite(alone.currentValue) =>
                       /\ returned[j].currentValue = alone.currentValue
                       /\ returned[j].return = alone.return

\* the total_nav of the latest snapshot dated on or before d
EntryNav(navs, d) ==
  LET before == {i \in 1..Len(navs) : navs[i].month_end_date <= d}
      last == CHOOSE i \in before :
                \A j \in before : navs[j].month_end_date <= navs[i].month_end_date
  IN Number(navs[last].total_nav)

\* C5, for an investor whose start date is no snapshot's month_start_date:
\* a non-closed investor without capital flows gets current_value =
\* latest_total_nav * (initial_investment / entry_nav) and return_percentage
\* = (current_value - initial_investment) / initial_investment * 100,
\* entry_nav being the total_nav of the latest snapshot on or before the
\* start date, whatever the investor's name.
C5_NoFlowValue ==
  (/\ dpc = "done"
   /\ dInvestor.status # "closed"
   /\ dTransactions = <<>>
   /\ \E i \in 1..Len(monthly_nav) : monthly_nav[i].month_end_date <= dInvestor.start_date
   /\ \A i \in 1..Len(monthly_nav) : monthly_nav[i].month_start_date # dInvestor.start_date)
    => LET initial == Number(dInvestor.initial_investment)
           value == Mul(Number(dLatestNav.total_nav),
                        Div(initial, EntryNav(monthly_nav, dInvestor.start_date)))
       IN /\ dResult.currentValue = value
          /\ dResult.returnPercentage = Mul(Div(Sub(value, initial), initial), Number(100))

\* C8: verifyNavReconciliation returns the sum of current_value over exactly
\* the active investors, discrepancy = |total_nav - sum|, and is_reconciled
\* iff discrepancy < total_nav * 0.0001; so is_reconciled is false when
\* total_nav = 0 and true with discrepancy 0 when the sum equals a positive
\* total_nav.
C8_ReconciliationRecord ==
  (vpc = "done") =>
    LET total_nav == IF vLatestNav = NoNav THEN Number(0)
                     ELSE Number(vLatestNav.total_nav)
        sum == ActiveSum(returned)
    IN /\ vResult.totalNav = total_nav
       /\ vResult.sumInvestorValues = sum
       /\ vResult.discrepancy = MathAbs(Sub(total_nav, sum))
       /\ vResult.isReconciled <=> Lt(vResult.discrepancy, Tolerance(total_nav))
       /\ IsZero(total_nav) => ~vResult.isReconciled
       /\ (sum = total_nav /\ Lt(Number(0), total_nav))
            => (vResult.isReconciled /\ IsZero(vResult.discrepancy))

\* C8 witness: a reconciled verdict with discrepancy 0 over a list that
\* also holds an inactive investor with a value of its own.
C8_Witness ==
  /\ vpc = "done" /\ vResult.isReconciled /\ IsZero(vResult.discrepancy)
  /\ \E i \in 1..Len(returned) : returned[i].status = "active"
  /\ \E i \in 1..Len(returned) :
       returned[i].status = "inactive" /\ Lt(Number(0), returned[i].currentValue)

\* C9: after the display correction the returned values of the active
\* investors sum to the latest total_nav, whenever the uncorrected active sum
\* is not zero.
C9_ScaledSumIsTotalNav ==
  (BatchReturned /\ ~IsZero(ActiveSum(adjustedResults)))
    => ActiveSum(returned) = Number(cLatestNav.total_nav)

\* C10: when the uncorrected active sum is 0 the scale factor is 1: every
\* returned current_value and return is finite and equal to the uncorrected
\* one.
C10_ZeroSumKeepsValues ==
  (BatchReturned /\ IsZero(ActiveSum(adjustedResults)))
    => \A i \in 1..Len(returned) :
         /\ IsFinite(returned[i].currentValue)
         /\ IsFinite(returned[i].return)
         /\ returned[i].currentValue = adjustedResults[i].currentValue
         /\ returned[i].return = adjustedResults[i].return

\* total_invested of an investor of the table: initial_investment + sum of
\* its contributions - sum of its withdrawals
TotalInvested(investor) ==
  LET rows == CHOOSE p \in getInvestorTransactions(capital_flows, investor.id) : TRUE
  IN calculateTotalInvested(Number(investor.initial_investment), rows)

\* (value - invested) / invested * 100
ReturnOn(invested, value) == Mul(Div(Sub(value, invested), invested), Number(100))

\* C11, for a positive total_invested and a finite corrected value: the
\* return_percentage of every active investor in the list returned by
\* calculateInvestorValues is (corrected current_value - total_invested) /
\* total_invested * 100, with total_invested = initial_investment + sum of
\* contributions - sum of withdrawals.
C11_BatchReturnOnTotalInvested ==
  BatchReturned =>
    \A i \in 1..Len(returned) :
      LET total_invested == TotalInvested(cInvestors[i])
      IN (/\ returned[i].status = "active"
          /\ Lt(Number(0), total_invested)
          /\ IsFinite(returned[i].currentValue))
           => returned[i].return = ReturnOn(total_invested, returned[i].currentValue)

\* the investor under another name
Renamed(investor, name) == [investor EXCEPT !.name = name]

\* the lists calculateInvestorValues can return for a list of investors,
\* one for every order in which the transactions can be delivered
BatchOutcomes(invs) ==
  LET ResultsOf(i) ==
        { InvestorResult(invs[i],
            calculateInvestorValue(invs[i], t, cLatestNav, cNavHistory)) :
            t \in getInvestorTransactions(capital_flows, invs[i].id) }
      lists == { rs \in [1..Len(invs) -> UNION {ResultsOf(i) : i \in 1..Len(invs)}] :
                   \A i \in 1..Len(invs) : rs[i] \in ResultsOf(i) }
  IN { AdjustAndScale(rs, cLatestNav) : rs \in lists }

\* C12: current_value and return_percentage do not depend on the
\* investor's name: the result of calculateInvestorValue, and every entry of
\* the list returned by calculateInvestorValues, is the one obtained when an
\* investor carries any other name and everything else is the same.
C12_NameIndependent ==
  /\ dpc = "done" =>
       \A name \in Names :
         dResult = calculateInvestorValue(Renamed(dInvestor, name), dTransactions,
                                          dLatestNav, getAllNavData(monthly_nav))
  /\ BatchReturned =>
       \A k \in 1..Len(cInvestors) : \A name \in Names :
         \E rs \in BatchOutcomes([cInvestors EXCEPT ![k] = Renamed(@, name)]) :
           \A i \in 1..Len(returned) :
             /\ returned[i].currentValue = rs[i].currentValue
             /\ returned[i].return = rs[i].return

\* the call of the detail page has returned for a non-closed investor
ValueReturned == dpc = "done" /\ dInvestor.status # "closed"

\* no snapshot is dated on or before the start date of the investor of the
\* detail page, and no month-start match applies
NoValuationAvailable ==
  InitialNav(dInvestor, sortedNavHistoryOf(getAllNavData(monthly_nav))).point = NoNav

\* what calculateInvestorValue hands to its caller when no valuation is
\* available
NoValuationOutcome == [currentValue |-> Number(0), returnPercentage |-> Number(0)]

\* C13: when no snapshot is dated on or before a non-closed investor's
\* start_date (and no month-start match applies), the caller receives the
\* outcome of that failure, computed from no snapshot, and no successful
\* computation hands the caller the same outcome.
C13_NoValuationSurfaced ==
  ValueReturned =>
    /\ NoValuationAvailable => dResult = NoValuationOutcome
    /\ (~NoValuationAvailable) => dResult # NoValuationOutcome

\* the state of the walk of the detail page after its first i events
WalkAfter(i) ==
  LET w[k \in 0..i] ==
        IF k = 0 THEN StartOfWalk(dInvestor, sortedTransactions, sortedNavHistory)
        ELSE WalkStep(w[k - 1], timeline[k], dInvestor)
  IN w[i]

\* the walk of the detail page divided by a NAV reference of zero, to
\* initialise the ownership or to price a transaction of the investor
ZeroReferenceUsed ==
  \/ IsZero(InitialNav(dInvestor, sortedNavHistory).value)
  \/ \E i \in 1..Len(timeline) :
       /\ timeline[i].type = "transaction"
       /\ timeline[i].date >= dInvestor.start_date
       /\ timeline[i].data.investor_id = dInvestor.id
       /\ IsZero(WalkAfter(i - 1).currentNavValue)

\* calculateInvestorValue has returned a current_value and a
\* return_percentage computed by the walk
WalkValueReturned == ValueReturned /\ timeline # <<>>

\* C14: when the NAV reference used to initialise the ownership or to price
\* a transaction is zero, calculateInvestorValue does not return a
\* current_value and return_percentage for that investor.
C14_InvalidNavReferenceReported == ~(WalkValueReturned /\ ZeroReferenceUsed)

\* the loop of the detail page is about to handle a transaction of the
\* investor, dated on or after the start date
AtTransaction ==
  /\ dpc = "walk" /\ idx <= Len(timeline)
  /\ timeline[idx].type = "transaction"
  /\ timeline[idx].date >= dInvestor.start_date
  /\ timeline[idx].data.investor_id = dInvestor.id

\* C15: a withdrawal whose amount exceeds value_before sets the ownership
\* fraction to exactly 0 and does not stop the walk: every step of the loop
\* moves on to the next timeline event, the loop ends only after the last
\* event, and a contribution handled at ownership 0 raises the ownership to
\* amount / nav_reference.
C15_OverWithdrawalContinues ==
  [][/\ (dpc = "walk" /\ idx <= Len(timeline)) => (dpc' = "walk" /\ idx' = idx + 1)
     /\ (dpc = "walk" /\ dpc' = "done") => idx > Len(timeline)
     /\ AtTransaction =>
          LET t == timeline[idx].data
              amount == Number(t.amount)
              nav_reference == walk.currentNavValue
              value_before == Mul(nav_reference, walk.ownershipPercentage)
          IN /\ (t.type = "withdrawal" /\ Lt(value_before, amount))
                  => IsZero(walk'.ownershipPercentage)
             /\ (t.type = "contribution" /\ IsZero(walk.ownershipPercentage))
                  => walk'.ownershipPercentage = Div(amount, nav_reference)]_vars

\* C15 witness: a withdrawal of 4 (200,000) against a smaller value left
\* the ownership at 0, and the contribution handled after it raised the
\* ownership to amount / nav_reference, at a positive NAV reference.
C15_Witness ==
  /\ JustHandled("contribution")
  /\ idx > 2
  /\ IsZero(WalkAfter(idx - 2).ownershipPercentage)
  /\ \E k \in 1..(idx - 2) :
       /\ timeline[k].type = "transaction"
       /\ timeline[k].date >= dInvestor.start_date
       /\ timeline[k].data.type = "withdrawal"
       /\ timeline[k].data.amount = 4
       /\ Lt(Mul(WalkAfter(k - 1).currentNavValue, WalkAfter(k - 1).ownershipPercentage),
             Number(4))
       /\ IsZero(WalkAfter(k).ownershipPercentage)
  /\ Lt(Number(0), walk.currentNavValue)
  /\ Lt(Number(0), walk.ownershipPercentage)
  /\ walk.ownershipPercentage = Div(Number(LastEvent.data.amount), walk.currentNavValue)

\* C16: for every investor with status closed the reported current_value is
\* 0, in the result of calculateInvestorValue and in the list returned by
\* calculateInvestorValues, whatever the NAV history, the transactions and
\* the investor's name.
C16_ClosedValueZero ==
  /\ (dpc = "done" /\ dInvestor.status = "closed") => IsZero(dResult.currentValue)
  /\ BatchReturned =>
       \A i \in 1..Len(returned) :
         returned[i].status = "closed" => IsZero(returned[i].currentValue)

\* the sum of the amounts of the capital flows of one type of an investor
FlowSum(investor, type) ==
  LET sum[i \in 0..Len(capital_flows)] ==
        IF i = 0 THEN 0
        ELSE IF capital_flows[i].investor_id = investor.id /\ capital_flows[i].type = type
             THEN sum[i - 1] + capital_flows[i].amount
        ELSE sum[i - 1]
  IN sum[Len(capital_flows)]

\* initial_investment + sum of all contributions - sum of all withdrawals
NetInvested(investor) ==
  Number(investor.initial_investment + FlowSum(investor, "contribution")
           - FlowSum(investor, "withdrawal"))

\* the amounts of the withdrawals of an investor that carry its latest
\* withdrawal date
LatestWithdrawalAmounts(investor) ==
  LET ws == { i \in 1..Len(capital_flows) :
                capital_flows[i].investor_id = investor.id
                  /\ capital_flows[i].type = "withdrawal" }
  IN { Number(capital_flows[i].amount) :
         i \in { j \in ws : \A k \in ws : capital_flows[k].date <= capital_flows[j].date } }

\* calculateInvestorValue has returned for a closed investor
ClosedReturned == dpc = "done" /\ dInvestor.status = "closed"

\* C17 as stated: for a closed investor with at least one withdrawal,
\* return_percentage = (amount of the withdrawal with the latest date -
\* total_invested) / total_invested * 100; with no withdrawal the result is
\* {0, 0}.
C17_ClosedReturn ==
  ClosedReturned =>
    IF LatestWithdrawalAmounts(dInvestor) = {}
    THEN dResult = [currentValue |-> Number(0), returnPercentage |-> Number(0)]
    ELSE \E amount \in LatestWithdrawalAmounts(dInvestor) :
           dResult.returnPercentage = ReturnOn(NetInvested(dInvestor), amount)

\* C17 amended: for a closed investor with at least one withdrawal,
\* return_percentage = (amount of the withdrawal with the latest date -
\* total_invested) / total_invested * 100 when total_invested > 0, and 0 when
\* total_invested <= 0; with no withdrawal the result is {0, 0}.
C17_ClosedReturnGuarded ==
  ClosedReturned =>
    IF LatestWithdrawalAmounts(dInvestor) = {}
    THEN dResult = [currentValue |-> Number(0), returnPercentage |-> Number(0)]
    ELSE \E amount \in LatestWithdrawalAmounts(dInvestor) :
           dResult.returnPercentage =
             IF Lt(Number(0), NetInvested(dInvestor))
             THEN ReturnOn(NetInvested(dInvestor), amount)
             ELSE Number(0)

\* C17 witness: a closed investor whose last withdrawal is smaller than a
\* positive total_invested has been given the negative return of the
\* formula.
C17_Witness ==
  /\ ClosedReturned
  /\ LatestWithdrawalAmounts(dInvestor) # {}
  /\ Lt(Number(0), NetInvested(dInvestor))
  /\ Lt(dResult.returnPercentage, Number(0))
  /\ \E amount \in LatestWithdrawalAmounts(dInvestor) :
       dResult.returnPercentage = ReturnOn(NetInvested(dInvestor), amount)

\* C18: for a non-closed investor calculateInvestorValue returns
\* return_percentage = 0 whenever total_invested <= 0, and otherwise
\* (current_value - total_invested) / total_invested * 100 with current_value
\* = latest_total_nav * ownership_fraction.
C18_ReturnOfValue ==
  LET total_invested == NetInvested(dInvestor)
      current_value == Mul(Number(dLatestNav.total_nav), walk.ownershipPercentage)
  IN /\ (ValueReturned /\ Le(total_invested, Number(0)))
          => IsZero(dResult.returnPercentage)
     /\ (WalkValueReturned /\ Lt(Number(0), total_invested))
          => /\ dResult.currentValue = current_value
             /\ dResult.returnPercentage = ReturnOn(total_invested, current_value)

\* C19: whenever the investor's start_date equals the month_start_date of a
\* snapshot that carries start_nav, the entry nav_reference is that start_nav
\* and (for an investor without name-specific handling) the initial
\* ownership_fraction is initial_investment / start_nav.
C19_StartNavEntry ==
  (dpc = "walk" /\ idx = 1) =>
    \A k \in 1..Len(sortedNavHistory) :
      (/\ sortedNavHistory[k].month_start_date = dInvestor.start_date
       /\ Truthy(sortedNavHistory[k].start_nav))
        => LET start_nav == Number(sortedNavHistory[k].start_nav)
           IN /\ InitialNav(dInvestor, sortedNavHistory).value = start_nav
              /\ dInvestor.name \notin {MarcKimDaudet, MitchellPantelides}
                   => walk.ownershipPercentage =
                        Div(Number(dInvestor.initial_investment), start_nav)

\* the number of 'nav' events of the timeline
NavEventCount == CountEvents(LAMBDA e : e.type = "nav")

\* the number of 'nav' events of the timeline that come from a snapshot
PointsOf(nav) == CountEvents(LAMBDA e : e.type = "nav" /\ e.data = nav)

\* the number of snapshots that satisfy p
CountSnapshots(p(_)) ==
  Cardinality({k \in 1..Len(sortedNavHistory) : p(sortedNavHistory[k])})

HasMonthStart(nav) == nav.month_start_date # NULL

HasBothFields(nav) == nav.month_start_date # NULL /\ nav.start_nav # NULL

\* C20 as stated: a snapshot contributes a month-start point only when it
\* has both month_start_date and start_nav, a snapshot lacking either
\* contributes exactly one point, and the number of 'nav' events is the number
\* of snapshots plus the number of snapshots having both fields.
C20_MonthStartNeedsBoth ==
  Walking =>
    /\ \A k \in 1..Len(sortedNavHistory) :
         PointsOf(sortedNavHistory[k]) = IF HasBothFields(sortedNavHistory[k]) THEN 2 ELSE 1
    /\ NavEventCount = Len(sortedNavHistory) + CountSnapshots(HasBothFields)

\* C20 amended: a snapshot contributes a month-start point whenever it has
\* month_start_date, with or without start_nav; a snapshot lacking
\* month_start_date contributes exactly one point (its month end), and the
\* number of 'nav' events is the number of snapshots plus the number of
\* snapshots having month_start_date.
C20_MonthStartNeedsDate ==
  Walking =>
    /\ \A k \in 1..Len(sortedNavHistory) :
         PointsOf(sortedNavHistory[k]) = IF HasMonthStart(sortedNavHistory[k]) THEN 2 ELSE 1
    /\ \A k \in 1..Len(sortedNavHistory) :
         HasMonthStart(sortedNavHistory[k]) =>
           CountEvents(LAMBDA e : e.type = "nav" /\ e.data = sortedNavHistory[k]
                                    /\ e.date = sortedNavHistory[k].month_start_date) = 1
    /\ NavEventCount = Len(sortedNavHistory) + CountSnapshots(HasMonthStart)

\* C20 witness: the timeline of two snapshots, one without month_start_date
\* and one with month_start_date but without start_nav, holds three 'nav'
\* events.
C20_Witness ==
  /\ Walking
  /\ Len(sortedNavHistory) = 2
  /\ ~HasMonthStart(sortedNavHistory[1])
  /\ HasMonthStart(sortedNavHistory[2]) /\ ~HasBothFields(sortedNavHistory[2])
  /\ PointsOf(sortedNavHistory[1]) = 1
  /\ PointsOf(sortedNavHistory[2]) = 2
  /\ NavEventCount = 3

\* the event is the month-start point of its snapshot
IsMonthStartPoint(event) ==
  /\ event.type = "nav"
  /\ Truthy(event.data.month_start_date)
  /\ event.data.month_start_date = event.date

\* the event is the month-end point of its snapshot
IsMonthEndPoint(event) ==
  /\ event.type = "nav"
  /\ ~IsMonthStartPoint(event)
  /\ event.data.month_end_date = event.date

\* C21 as stated: a 'nav' event never changes ownership_fraction; it sets
\* nav_reference to start_nav when the event is the month-start point of its
\* snapshot and to total_nav when it is the month-end point.
C21_NavEventSetsReference ==
  [][WalkNav =>
       LET event == timeline[idx]
       IN /\ walk'.ownershipPercentage = walk.ownershipPercentage
          /\ IsMonthStartPoint(event) =>
               /\ event.data.start_nav # NULL
               /\ walk'.currentNavValue = Number(event.data.start_nav)
          /\ IsMonthEndPoint(event) =>
               walk'.currentNavValue = Number(event.data.total_nav)]_vars

\* C21 amended: a 'nav' event never changes ownership_fraction; it sets
\* nav_reference to start_nav at the month-start point of a snapshot that
\* carries a non-zero start_nav, leaves nav_reference unchanged at the
\* month-start point of a snapshot whose start_nav is missing or zero, and
\* sets it to total_nav at the month-end point.
C21_NavEventSetsCarriedReference ==
  [][WalkNav =>
       LET event == timeline[idx]
       IN /\ walk'.ownershipPercentage = walk.ownershipPercentage
          /\ (IsMonthStartPoint(event) /\ Truthy(event.data.start_nav)) =>
               walk'.currentNavValue = Number(event.data.start_nav)
          /\ (IsMonthStartPoint(event) /\ ~Truthy(event.data.start_nav)) =>
               walk'.currentNavValue = walk.currentNavValue
          /\ IsMonthEndPoint(event) =>
               walk'.currentNavValue = Number(event.data.total_nav)]_vars

\* the loop has just handled a 'nav' event dated on or after the start date
JustHandledNav ==
  /\ dpc = "walk" /\ idx > 1
  /\ LastEvent.type = "nav"
  /\ LastEvent.date >= dInvestor.start_date

\* C21 witness: the month-start point of a snapshot carrying start_nav has
\* been handled after a month-end point of another value, and the reference
\* is the start_nav while the ownership is the one the walk started with.
C21_Witness ==
  /\ JustHandledNav /\ idx > 2
  /\ IsMonthStartPoint(LastEvent) /\ Truthy(LastEvent.data.start_nav)
  /\ IsMonthEndPoint(timeline[idx - 2])
  /\ timeline[idx - 2].date >= dInvestor.start_date
  /\ timeline[idx - 2].data.total_nav # LastEvent.data.start_nav
  /\ walk.currentNavValue = Number(LastEvent.data.start_nav)
  /\ walk.ownershipPercentage =
       StartOfWalk(dInvestor, sortedTransactions, sortedNavHistory).ownershipPercentage

\* the transactions of the array that belong to the investor, in the order
\* of the array
OwnTransactions(transactions, investor) ==
  LET own[i \in 0..Len(transactions)] ==
        IF i = 0 THEN <<>>
        ELSE IF transactions[i].investor_id = investor.id
             THEN Append(own[i - 1], transactions[i])
             ELSE own[i - 1]
  IN own[Len(transactions)]

\* C22: a transaction event of another investor leaves ownership_fraction
\* and nav_reference unchanged, and the result of a call is the result of
\* the call without the other investors' transactions in the array.
C22_OtherInvestorsIgnored ==
  /\ (dpc = "walk" /\ idx > 1 /\ LastEvent.type = "transaction"
        /\ LastEvent.data.investor_id # dInvestor.id)
       => walk = WalkAfter(idx - 2)
  /\ dpc = "done"
       => dResult = calculateInvestorValue(
                      dInvestor, OwnTransactions(dTransactions, dInvestor),
                      dLatestNav, dNavHistory)

\* C23: the loop starts at the first event of the timeline, takes the
\* events one by one in timeline order and ends after the last; an event
\* dated before start_date changes neither nav_reference nor
\* ownership_fraction, and every event dated on or after start_date goes
\* through the transition function once.
C23_EveryEventOnce ==
  [][/\ (dpc # "walk" /\ dpc' = "walk") => idx' = 1
     /\ (dpc = "walk" /\ idx <= Len(timeline)) =>
          LET event == timeline[idx]
          IN /\ idx' = idx + 1 /\ dpc' = "walk"
             /\ timeline' = timeline /\ dInvestor' = dInvestor
             /\ walk' = IF event.date < dInvestor.start_date THEN walk
                        ELSE IF event.type = "nav" THEN NavEvent(walk, event)
                        ELSE TransactionEvent(walk, event, dInvestor)
     /\ (dpc = "walk" /\ dpc' = "done") =>
          /\ idx = Len(timeline) + 1
          /\ walk' = walk]_vars

\* C23 witness: the loop is past a timeline that begins with a NAV point
\* and a transaction dated before the start date and ends with a later
\* transaction of the investor; the ownership is not the one the walk started with, and it is
\* the one the later events alone give.
C23_Witness ==
  /\ dpc = "walk" /\ idx = Len(timeline) + 1 /\ Len(timeline) > 2
  /\ timeline[1].type = "nav" /\ timeline[2].type = "transaction"
  /\ timeline[2].date < dInvestor.start_date
  /\ LastEvent.type = "transaction" /\ LastEvent.date >= dInvestor.start_date
  /\ walk.ownershipPercentage #
       StartOfWalk(dInvestor, sortedTransactions, sortedNavHistory).ownershipPercentage
  /\ IsFinite(walk.ownershipPercentage)

\* the value the latest NAV point with a value dated from start_date to the
\* date of timeline event k gives, or the entry valuation when there is none
PricingReference(k) ==
  LET HasValue(event) ==
        /\ event.type = "nav"
        /\ event.date >= dInvestor.start_date
        /\ IsMonthStartPoint(event) => Truthy(event.data.start_nav)
      ValueOf(event) ==
        IF IsMonthStartPoint(event) THEN Number(event.data.start_nav)
        ELSE Number(event.data.total_nav)
      ref[i \in 0..k] ==
        IF i = 0 THEN InitialNav(dInvestor, sortedNavHistory).value
        ELSE IF HasValue(timeline[i]) THEN ValueOf(timeline[i])
        ELSE ref[i - 1]
  IN ref[k]

\* C24: every transaction of the investor dated on or after start_date is
\* priced with the value of the latest NAV timeline point dated on or after
\* start_date and on or before the transaction's date, or with the entry
\* valuation when there is no such point.
C24_PricedAtLatestNavPoint ==
  (dpc = "walk" /\ idx <= Len(timeline)
     /\ timeline[idx].type = "transaction"
     /\ timeline[idx].date >= dInvestor.start_date)
    => walk.currentNavValue = PricingReference(idx - 1)

\* C25: the display correction changes only active investors: for every
\* closed or inactive investor the current_value and the return of the
\* returned list are those calculateInvestorValue computed.
C25_OnlyActiveCorrected ==
  BatchReturned =>
    \A i \in 1..Len(returned) :
      returned[i].status # "active" =>
        /\ returned[i].currentValue = investorResults[i].currentValue
        /\ returned[i].return = investorResults[i].return

\* the fields of a reconciliation record are numbers and a boolean
IsReconciliationRecord(r) ==
  /\ DOMAIN r = {"totalNav", "sumInvestorValues", "discrepancy", "isReconciled"}
  /\ r.isReconciled \in BOOLEAN
  /\ \A f \in {"totalNav", "sumInvestorValues", "discrepancy"} :
       DOMAIN r[f] = {"n", "d"}

\* C26: verifyNavReconciliation always completes with a record {total_nav,
\* sum_investor_values, discrepancy, is_reconciled}; is_reconciled is false
\* when the latest NAV cannot be read, when the investor list is empty, when
\* the computation of an investor fails, and when the sum deviates from the
\* total NAV beyond the tolerance.
C26_FailureNotReconciled ==
  (vpc = "done") =>
    /\ IsReconciliationRecord(vResult)
    /\ vLatestNav = NoNav => ~vResult.isReconciled
    /\ investors = <<>> => ~vResult.isReconciled
    /\ (vLatestNav # NoNav
          /\ \E i \in 1..Len(investors) : Fails(investors[i], cNavHistory))
         => ~vResult.isReconciled
    /\ Ge(vResult.discrepancy, Tolerance(vResult.totalNav)) => ~vResult.isReconciled

\* C27: calculateInvestorValue leaves the investor record, the transaction
\* array, the latest NAV and the NAV history array of its caller as they
\* were passed, in content and in order, and the tables untouched;
\* createUnifiedTimeline leaves the two arrays it is given unchanged; and the
\* value returned is the one the arguments determine, so that a second call
\* on the same arguments returns the same.
C27_Pure ==
  /\ [][(dpc # "idle") =>
          /\ dInvestor' = dInvestor /\ dTransactions' = dTransactions
          /\ dLatestNav' = dLatestNav /\ dNavHistory' = dNavHistory
          /\ UNCHANGED tables]_vars
  /\ [][(dpc = "walk") =>
          /\ sortedNavHistory' = sortedNavHistory
          /\ sortedTransactions' = sortedTransactions]_vars
  /\ [](dpc = "done" =>
          dResult = calculateInvestorValue(dInvestor, dTransactions, dLatestNav,
                                           dNavHistory))

\* C27 witness: a call has returned a finite value for an investor that is
\* not closed, on a NAV history array and a transaction array both passed
\* latest first, and the caller's arrays are still latest first.
C27_Witness ==
  /\ dpc = "done" /\ dInvestor.status # "closed"
  /\ Len(dNavHistory) = 2
  /\ dNavHistory[1].month_end_date > dNavHistory[2].month_end_date
  /\ Len(dTransactions) = 2
  /\ dTransactions[1].date > dTransactions[2].date
  /\ timeline # <<>>
  /\ IsFinite(dResult.currentValue)

\* C28: verifyNavReconciliation compares values of one NAV snapshot: the
\* total_nav it returns is that of the latest snapshot
\* calculateInvestorValues read and scaled the values to, also when a
\* snapshot is added between the two reads.
C28_OneSnapshot ==
  (vpc = "done" /\ BatchReturned) =>
    /\ vLatestNav = cLatestNav
    /\ vResult.totalNav = Number(cLatestNav.total_nav)

\* the transactions of the array carry distinct dates
DistinctDates(transactions) ==
  \A i, j \in 1..Len(transactions) :
    i # j => transactions[i].date # transactions[j].date

\* C29: for an investor that is not closed and a transaction array of
\* distinct dates, calculateInvestorValue returns the same result for every
\* order of the transaction array and of the NAV history array.
C29_OrderIndependent ==
  (dpc = "done" /\ dInvestor.status # "closed" /\ DistinctDates(dTransactions)) =>
    \A transactions \in Perms(Rows(dTransactions)) :
      \A allNavHistory \in Perms(Rows(dNavHistory)) :
        calculateInvestorValue(dInvestor, transactions, dLatestNav, allNavHistory)
          = dResult

\* the transactions of the array dated on or after the investor's start
\* date, in the order of the array
FromStart(transactions, investor) ==
  LET later[i \in 0..Len(transactions)] ==
        IF i = 0 THEN <<>>
        ELSE IF transactions[i].date >= investor.start_date
             THEN Append(later[i - 1], transactions[i])
             ELSE later[i - 1]
  IN later[Len(transactions)]

\* the loop state after the whole timeline of a call
FinalWalk(investor, transactions, allNavHistory) ==
  LET navs == sortedNavHistoryOf(allNavHistory)
      txs == sortedTransactionsOf(transactions)
      tl == createUnifiedTimeline(navs, txs)
      w[i \in 0..Len(tl)] ==
        IF i = 0 THEN StartOfWalk(investor, txs, navs)
        ELSE WalkStep(w[i - 1], tl[i], investor)
  IN w[Len(tl)]

\* C30: the investor's transactions dated before start_date change neither
\* the ownership_fraction nor the current_value of the call (both are those
\* of the call without them), and they are counted in total_invested, on
\* which return_percentage is computed.
C30_EarlyTransactionsCounted ==
  (dpc = "done" /\ dInvestor.status # "closed" /\ timeline # <<>>) =>
    LET later == FromStart(dTransactions, dInvestor)
        without == calculateInvestorValue(dInvestor, later, dLatestNav, dNavHistory)
    IN /\ walk.ownershipPercentage =
            FinalWalk(dInvestor, later, dNavHistory).ownershipPercentage
       /\ dResult.currentValue = without.currentValue
       /\ dResult.returnPercentage =
            calculateReturn(calculateTotalInvested(
                              Number(dInvestor.initial_investment), dTransactions),
                            dResult.currentValue)

====
